---- MODULE Spec2Model ----
(***************************************************************************)
(* A model of the JSON:API OpenAPI generator (src/src/generator.ts, lines  *)
(* 1-418, with the modules it imports: init, the resource schemas, the     *)
(* relationship schemas and utils).                                        *)
(*                                                                         *)
(* Strings the code takes apart character by character (resource names,    *)
(* plurals, operation tokens) are sequences of one-character strings; the  *)
(* keys and values of the generated document are TLA+ strings.  A string   *)
(* value of the document is held as the tuple of its "/"-separated         *)
(* segments, so that a "$ref" can be resolved the way a JSON pointer is.   *)
(* The document is the set of its leaves: [p |-> path of keys, v |-> value]*)
(***************************************************************************)
EXTENDS Naturals, Sequences, FiniteSets, TLC

(***************************************************************************)
(* Bounds of the model.                                                    *)
(***************************************************************************)
\* resources of one configuration
MaxResources == 2
\* size of one configuration: its resources, operation tokens and paginate
\* flags, and twice its relationships, counted together
MaxConfigSize == 4

(***************************************************************************)
(* Characters and strings.                                                 *)
(***************************************************************************)
lowerCase == <<"a","b","c","d","e","f","g","h","i","j","k","l","m",
               "n","o","p","q","r","s","t","u","v","w","x","y","z">>
upperCase == <<"A","B","C","D","E","F","G","H","I","J","K","L","M",
               "N","O","P","Q","R","S","T","U","V","W","X","Y","Z">>

Range(s) == {s[n] : n \in DOMAIN s}

IsLower(c) == c \in Range(lowerCase)
IsUpper(c) == c \in Range(upperCase)

IndexIn(c, alphabet) == CHOOSE n \in DOMAIN alphabet : alphabet[n] = c

toLowerChar(c) == IF IsUpper(c) THEN lowerCase[IndexIn(c, upperCase)] ELSE c
toUpperChar(c) == IF IsLower(c) THEN upperCase[IndexIn(c, lowerCase)] ELSE c

\* String.prototype.toLowerCase
toLower(s) == [n \in DOMAIN s |-> toLowerChar(s[n])]

\* _.upperFirst
upperFirst(s) == IF s = <<>> THEN s ELSE <<toUpperChar(s[1])>> \o Tail(s)

\* _.capitalize: the first character to upper case, the remaining to lower case
capitalize(s) == upperFirst(toLower(s))

\* the TLA+ string a sequence of characters spells
RECURSIVE Show(_)
Show(s) == IF s = <<>> THEN "" ELSE s[1] \o Show(Tail(s))

\* the lengths of the longest lower-case and upper-case prefixes of s
RECURSIVE LowerRun(_)
LowerRun(s) == IF s # <<>> /\ IsLower(s[1]) THEN 1 + LowerRun(Tail(s)) ELSE 0

RECURSIVE UpperRun(_)
UpperRun(s) == IF s # <<>> /\ IsUpper(s[1]) THEN 1 + UpperRun(Tail(s)) ELSE 0

Drop(s, n) == SubSeq(s, n + 1, Len(s))
Take(s, n) == SubSeq(s, 1, n)

\* String.prototype.match with /(^[a-z]+)|([A-Z][a-z]*)/g: every match, left
\* to right; atStart tells whether the scan is at index 0 of the string
RECURSIVE MatchCamel(_, _)
MatchCamel(s, atStart) ==
  IF s = <<>> THEN <<>>
  ELSE IF atStart /\ LowerRun(s) > 0
       THEN <<Take(s, LowerRun(s))>> \o MatchCamel(Drop(s, LowerRun(s)), FALSE)
  ELSE IF IsUpper(s[1])
       THEN <<Take(s, 1 + LowerRun(Tail(s)))>>
              \o MatchCamel(Drop(s, 1 + LowerRun(Tail(s))), FALSE)
  ELSE MatchCamel(Tail(s), FALSE)

\* _.words(string, pattern): string.match(pattern) || []
words(s) == MatchCamel(s, TRUE)

\* _.join(array, "-")
RECURSIVE join(_)
join(ws) ==
  IF ws = <<>> THEN <<>>
  ELSE IF Len(ws) = 1 THEN ws[1]
  ELSE ws[1] \o <<"-">> \o join(Tail(ws))

\* _.words(string) without a pattern, on strings of ASCII letters and "-":
\* a word is a lower-case run, an upper-case letter with the lower-case run
\* after it, or an upper-case run (without its last letter when a lower-case
\* letter follows it); any other character separates words
RECURSIVE unicodeWords(_)
unicodeWords(s) ==
  IF s = <<>> THEN <<>>
  ELSE IF IsLower(s[1])
       THEN <<Take(s, LowerRun(s))>> \o unicodeWords(Drop(s, LowerRun(s)))
  ELSE IF IsUpper(s[1])
       THEN LET u == UpperRun(s)
                l == LowerRun(Drop(s, u))
                n == IF u = 1 THEN 1 + l ELSE IF l > 0 THEN u - 1 ELSE u
            IN  <<Take(s, n)>> \o unicodeWords(Drop(s, n))
  ELSE unicodeWords(Tail(s))

\* _.camelCase: the words in lower case, all but the first capitalized, joined
RECURSIVE camelJoin(_, _)
camelJoin(ws, first) ==
  IF ws = <<>> THEN <<>>
  ELSE (IF first THEN toLower(ws[1]) ELSE capitalize(toLower(ws[1])))
         \o camelJoin(Tail(ws), FALSE)

camelCase(s) == camelJoin(unicodeWords(s), TRUE)

(***************************************************************************)
(* JSON trees as sets of leaves.                                           *)
(***************************************************************************)
\* a scalar
Leaf(v) == {[p |-> <<>>, v |-> v]}
Str(s) == Leaf(<<s>>)

\* {} and []
EmptyObject == Leaf(<<>>)

\* the tree t under key k
At(k, t) == {[p |-> <<k>> \o e.p, v |-> e.v] : e \in t}

\* the tree t under the path of keys
Under(path, t) == {[p |-> path \o e.p, v |-> e.v] : e \in t}

\* an array of trees, keyed by index as a JSON pointer does
arrayIndex == <<"0", "1", "2", "3", "4", "5", "6", "7", "8", "9">>
Array(ts) == IF ts = <<>> THEN EmptyObject
             ELSE UNION {At(arrayIndex[n], ts[n]) : n \in DOMAIN ts}

\* an array of strings
Strings(ss) == Array([n \in DOMAIN ss |-> Str(ss[n])])

\* { $ref: "#/components/<section>/<key>/<rest...>" }
Ref(section, key, rest) ==
  At("$ref", Leaf(<<"#", "components", section, key>> \o rest))

IsPrefix(a, b) == Len(a) <= Len(b) /\ SubSeq(b, 1, Len(a)) = a

\* _.has(object, path)
has(doc, path) == \E e \in doc : IsPrefix(path, e.p)

\* _.set(object, path, value), and object[key] = value: the subtree at path
\* is replaced
set(doc, path, t) ==
  {e \in doc : ~IsPrefix(path, e.p) /\ ~(e.v = <<>> /\ IsPrefix(e.p, path))}
    \cup Under(path, t)

\* the keys of the object at path
KeysAt(doc, path) ==
  {e.p[Len(path) + 1] : e \in {x \in doc : IsPrefix(path, x.p) /\ Len(x.p) > Len(path)}}

\* the subtree at path
TreeAt(doc, path) ==
  {[p |-> Drop(e.p, Len(path)), v |-> e.v] : e \in {x \in doc : IsPrefix(path, x.p)}}

\* _.get(object, path, default) of a scalar
get(doc, path, default) ==
  IF \E e \in doc : e.p = path
  THEN (CHOOSE e \in doc : e.p = path).v
  ELSE default

(***************************************************************************)
(* The configuration (types.ts).                                           *)
(***************************************************************************)
s_get == <<"g","e","t">>
s_getById == <<"g","e","t","B","y","I","d">>
s_post == <<"p","o","s","t">>
s_patchById == <<"p","a","t","c","h","B","y","I","d">>
s_deleteById == <<"d","e","l","e","t","e","B","y","I","d">>
s_patch == <<"p","a","t","c","h">>
s_delete == <<"d","e","l","e","t","e">>

\* type OperationType
OperationType == <<s_get, s_getById, s_post, s_patchById, s_deleteById>>

\* tokens a configuration file can hold although OperationType excludes them:
\* one that starts with a lower-case run and one that does not
s_getAll == <<"g","e","t","A","l","l">>
s_Get == <<"G","e","t">>
OperationTokens == OperationType \o <<s_getAll, s_Get>>

s_pet == <<"p","e","t">>
s_pets == <<"p","e","t","s">>
s_owner == <<"o","w","n","e","r">>
s_owners == <<"o","w","n","e","r","s">>
s_siblings == <<"s","i","b","l","i","n","g","s">>
s_Pet == <<"P","e","t">>
s_Pets == <<"P","e","t","s">>

\* the resources a configuration draws from: resource name and plural; the
\* keys of a YAML mapping are case-sensitive, so pet and Pet are two resources
ResourceNames == <<[name |-> s_pet, plural |-> s_pets],
                   [name |-> s_owner, plural |-> s_owners],
                   [name |-> s_Pet, plural |-> s_Pets]>>

\* the relationships a resource draws from: relationship name and the type
\* (resource name) of the related resource
RelationshipNames == <<[name |-> s_owner, type |-> s_owner],
                       [name |-> s_siblings, type |-> s_pet]>>
RelationshipTypes == {"toOne", "toMany"}

\* attributes: { name: { type: string } }
s_name == <<"n","a","m","e">>
Attributes == <<[name |-> s_name, type |-> "string"]>>

\* the subsequence of seq whose elements are in S
Among(seq, S) == SelectSeq(seq, LAMBDA x : x \in S)

\* the relationship maps over the names in S, in the order of RelationshipNames
RECURSIVE RelationshipMaps(_)
RelationshipMaps(names) ==
  IF names = <<>> THEN {<<>>}
  ELSE LET rest == RelationshipMaps(Tail(names))
       IN  rest \cup
           {<<[name |-> names[1].name, type |-> names[1].type,
               relationshipType |-> t]>> \o r :
              t \in RelationshipTypes, r \in rest}

\* interface Resource, for the resource name and plural of entry
Resources(entry) ==
  {[name |-> entry.name,
    plural |-> entry.plural,
    selfLinks |-> TRUE,
    paginate |-> pg,
    operations |-> Among(OperationTokens, ops),
    requiredPostAttributes |-> [all |-> TRUE, names |-> <<>>],
    attributes |-> Attributes,
    relationships |-> rels] :
      pg \in BOOLEAN, ops \in SUBSET Range(OperationTokens),
      rels \in RelationshipMaps(RelationshipNames)}

\* a relationship counts twice
ResourceSize(r) ==
  1 + Len(r.operations) + 2 * Len(r.relationships) + (IF r.paginate THEN 1 ELSE 0)

\* the resource maps of at most n resources and size at most budget, over the
\* names from the k-th on; a map is the sequence of its entries, here in the
\* order of ResourceNames
RECURSIVE ResourceMaps(_, _, _)
ResourceMaps(n, budget, from) ==
  {<<>>} \cup
  (IF n = 0 THEN {}
   ELSE UNION {
     UNION {
       {<<r>> \o rest :
          rest \in ResourceMaps(n - 1, budget - ResourceSize(r), k + 1)} :
       r \in {x \in Resources(ResourceNames[k]) : ResourceSize(x) <= budget}} :
     k \in {m \in DOMAIN ResourceNames : m >= from}})

\* interface Config
Configs ==
  {[version |-> "v1", title |-> "REPLACEME", githubUrl |-> "REPLACEME",
    resources |-> rs] : rs \in ResourceMaps(MaxResources, MaxConfigSize, 1)}

NoConfig == [version |-> "", title |-> "", githubUrl |-> "", resources |-> <<>>]

(***************************************************************************)
(* init.ts                                                                 *)
(***************************************************************************)
paginationSchemas ==
  At("Meta", At("properties",
       At("totalResults", At("type", Str("integer")))
       \cup At("totalPages", At("type", Str("integer")))
       \cup At("currentPageNumber", At("type", Str("integer")))
       \cup At("currentPageSize", At("type", Str("integer")))))
  \cup
  At("PaginationLinks", At("properties",
       At("first", At("type", Str("string")) \cup At("format", Str("uri")))
       \cup At("last", At("type", Str("string")) \cup At("format", Str("uri")))
       \cup At("prev", At("type", Str("string")) \cup At("format", Str("uri")))
       \cup At("next", At("type", Str("string")) \cup At("format", Str("uri")))))

paginationParameters ==
  At("pageNumber",
       At("name", Str("page[number]")) \cup At("in", Str("query"))
       \cup At("required", Str("false"))
       \cup At("schema", At("type", Str("integer")) \cup At("minimum", Str("1"))
                         \cup At("default", Str("1"))))
  \cup
  At("pageSize",
       At("name", Str("page[size]")) \cup At("in", Str("query"))
       \cup At("required", Str("false"))
       \cup At("schema", At("type", Str("integer")) \cup At("minimum", Str("1"))
                         \cup At("maximum", Str("500")) \cup At("default", Str("25"))))

errorSchema ==
  At("content", At("application/json", At("schema", Ref("schemas", "ErrorResult", <<>>))))

\* _.some(config.resources, (resource) => resource.paginate)
\* _.every in the place of _.some
containsOnlyPaginated(config) ==
  \A n \in DOMAIN config.resources : config.resources[n].paginate

containsPaginated(config) ==
  \E n \in DOMAIN config.resources : config.resources[n].paginate

init(config) ==
  LET extraSchemas == IF containsPaginated(config) THEN paginationSchemas ELSE {}
      extraParameters ==
        IF containsPaginated(config) THEN paginationParameters ELSE EmptyObject
  IN  At("openapi", Str("3.0.0"))
      \cup At("info", At("title", Str(config.title)) \cup At("version", Str(config.version)))
      \cup At("externalDocs", At("url", Str(config.githubUrl)))
      \cup At("servers", Array(<<
             At("url", Leaf(<<"https:", "", "api.oregonstate.edu", config.version>>))>>))
      \cup At("security", Array(<<At("OAuth2", Strings(<<"full">>))>>))
      \cup At("paths", EmptyObject)
      \cup At("components",
             At("securitySchemes", At("OAuth2", At("type", Str("oauth2"))))
             \cup At("parameters", extraParameters)
             \cup At("responses",
                    At("204Delete", At("description", Str("The resource was successfully deleted")))
                    \cup At("204RelationshipUpdate",
                            At("description", Str("The relationship(s) already match the requested state")))
                    \cup At("400", At("description", Str("Bad request")) \cup errorSchema)
                    \cup At("404", At("description", Str("Resource not found")) \cup errorSchema)
                    \cup At("409Post", At("description", Str("409Post")) \cup errorSchema)
                    \cup At("409Patch", At("description", Str("409Patch")) \cup errorSchema)
                    \cup At("500", At("description", Str("Internal server error")) \cup errorSchema))
             \cup At("schemas",
                    At("SelfLink",
                       At("type", Str("object"))
                       \cup At("properties", At("self",
                              At("type", Str("string")) \cup At("format", Str("uri")))))
                    \cup extraSchemas
                    \cup At("ErrorObject",
                       At("type", Str("object"))
                       \cup At("properties",
                              At("status", At("type", Str("string")))
                              \cup At("title", At("type", Str("string")))
                              \cup At("code", At("type", Str("string")))
                              \cup At("detail", At("type", Str("string")))
                              \cup At("links",
                                      At("type", Str("object"))
                                      \cup At("properties", At("about",
                                             At("type", Str("string"))
                                             \cup At("format", Str("uri")))))))
                    \cup At("ErrorResult",
                       At("type", Str("object"))
                       \cup At("properties", At("errors",
                              At("type", Str("array"))
                              \cup At("items", Ref("schemas", "ErrorObject", <<>>)))))))

(***************************************************************************)
(* utils.ts                                                                *)
(***************************************************************************)
\* the resource name as the prefix, not capitalised
getResourceSchemaPrefixAsNamed(resourceName) == Show(resourceName)

getResourceSchemaPrefix(resourceName) == Show(capitalize(resourceName))

(***************************************************************************)
(* resourceSchemas.ts                                                      *)
(***************************************************************************)
\* an object with one entry (key k, tree t) per element of entries
ObjectOf(entries) ==
  IF entries = <<>> THEN EmptyObject
  ELSE UNION {At(entries[n].k, entries[n].t) : n \in DOMAIN entries}

\* resource.attributes, inserted as it is
attributeSchemas(resource) ==
  ObjectOf([n \in DOMAIN resource.attributes |->
              [k |-> Show(resource.attributes[n].name),
               t |-> At("type", Str(resource.attributes[n].type))]])

\* getRelationship, local to getResourceSchema
getRelationship(resourceName, relationship) ==
  LET schemaName == getResourceSchemaPrefix(resourceName)
                      \o getResourceSchemaPrefix(relationship.type)
  IN  Ref("schemas",
          IF relationship.relationshipType = "toOne"
          THEN schemaName \o "RelationshipResult"
          ELSE schemaName \o "RelationshipSetResult",
          <<>>)

getResourceSchema(resource, resourceName) ==
  At("type", Str("object"))
  \cup At("properties",
         At("id", At("type", Str("string"))
                  \cup At("description", Str("Unique ID of " \o Show(resourceName) \o " resource")))
         \cup At("type", At("type", Str("string"))
                         \cup At("enum", Strings(<<Show(resourceName)>>)))
         \cup At("attributes", At("type", Str("object"))
                               \cup At("properties", attributeSchemas(resource)))
         \* if (resource.relationships): a map, also an empty one, is truthy
         \cup At("relationships",
                 At("type", Str("object"))
                 \cup At("properties",
                         ObjectOf([n \in DOMAIN resource.relationships |->
                                     [k |-> Show(resource.relationships[n].name),
                                      t |-> getRelationship(resourceName,
                                                            resource.relationships[n])]])))
         \cup (IF resource.selfLinks
               THEN At("links", Ref("schemas", "SelfLink", <<>>))
               ELSE {}))

getResultSchema(resourceSchemaName) ==
  At("type", Str("object"))
  \cup At("properties",
         At("links", Ref("schemas", "SelfLink", <<>>))
         \cup At("data", Ref("schemas", resourceSchemaName, <<>>)))

getSetResultSchema(resource, resourceSchemaName) ==
  LET paginateProps ==
        At("links", At("type", Str("object"))
                    \cup At("allOf", Array(<<Ref("schemas", "SelfLink", <<>>),
                                             Ref("schemas", "PaginationLinks", <<>>)>>)))
        \cup At("meta", Ref("schemas", "Meta", <<>>))
      noPaginateProps == At("links", Ref("schemas", "SelfLink", <<>>))
  IN  At("type", Str("object"))
      \cup At("properties",
             (IF resource.paginate THEN paginateProps ELSE noPaginateProps)
             \cup At("data", At("type", Str("array"))
                             \cup At("items", Ref("schemas", resourceSchemaName, <<>>))))

\* bodyType is "post" or "patch"; the default branch of the switch (a throw)
\* is not reached by the two calls of buildResources
getRequestBodySchema(resource, resourceSchemaName, bodyType) ==
  LET attributeProperties ==
        ObjectOf([n \in DOMAIN resource.attributes |->
                    [k |-> Show(resource.attributes[n].name),
                     t |-> Ref("schemas", resourceSchemaName,
                               <<"properties", "attributes", "properties",
                                 Show(resource.attributes[n].name)>>)]])
      allProperties == [n \in DOMAIN resource.attributes |-> Show(resource.attributes[n].name)]
      requiredProperties ==
        IF resource.requiredPostAttributes.all
        THEN allProperties
        ELSE [n \in DOMAIN resource.requiredPostAttributes.names |->
                Show(resource.requiredPostAttributes.names[n])]
      attributes ==
        IF bodyType = "post"
        THEN At("attributes", At("type", Str("object"))
                              \cup At("properties", attributeProperties)
                              \cup At("required", Strings(requiredProperties))
                              \cup At("additionalProperties", Str("false")))
        ELSE At("attributes", At("type", Str("object"))
                              \cup At("properties", attributeProperties))
      required ==
        IF bodyType = "post"
        THEN At("required", Strings(<<"type", "attributes">>))
        ELSE At("required", Strings(<<"type", "id">>))
  IN  At("type", Str("object"))
      \cup At("properties",
             At("data", At("type", Str("object"))
                        \cup At("properties",
                                At("type", Ref("schemas", resourceSchemaName,
                                               <<"properties", "type">>))
                                \cup attributes)
                        \cup required))
      \cup At("required", Strings(<<"data">>))
      \cup At("additionalProperties", Str("false"))

(***************************************************************************)
(* relationshipSchemas.ts                                                  *)
(***************************************************************************)
getRelationshipSchema(relationship) ==
  LET relationshipSchemaName == getResourceSchemaPrefix(relationship.type)
  IN  At("type", Str("object"))
      \cup At("properties",
             At("type", Ref("schemas", relationshipSchemaName \o "Resource",
                            <<"properties", "type">>))
             \cup At("id", Ref("schemas", relationshipSchemaName \o "Resource",
                               <<"properties", "id">>)))

\* links: { self, related } of both result schemas; url is the value of the
\* baseUrl argument as the template literal renders it
relationshipLinks(resource, relationshipName, url) ==
  At("type", Str("object"))
  \cup At("properties",
         At("self", At("type", Str("string"))
                    \cup At("example", Leaf(url \o <<Show(resource.plural), "1",
                                                     "relationships", Show(relationshipName)>>)))
         \cup At("related", At("type", Str("string"))
                            \cup At("example", Leaf(url \o <<Show(resource.plural), "1",
                                                             Show(relationshipName)>>))))

getRelationshipResultSchema(resource, relationshipName, url, relationshipKey) ==
  At("type", Str("object"))
  \cup At("properties",
         At("data", At("type", Str("object"))
                    \cup At("allOf", Array(<<
                           At("type", Str("object")) \cup At("nullable", Str("true")),
                           Ref("schemas", relationshipKey, <<>>)>>)))
         \cup At("links", relationshipLinks(resource, relationshipName, url)))

getRelationshipSetResultSchema(resource, relationshipName, url, relationshipKey) ==
  At("type", Str("object"))
  \cup At("properties",
         At("data", At("type", Str("array"))
                    \cup At("items", Ref("schemas", relationshipKey, <<>>)))
         \cup At("links", relationshipLinks(resource, relationshipName, url)))

(***************************************************************************)
(* resourceSchemas.ts with the attribute lists: the version with one       *)
(* resource schema per operation (src/unnamed/part_005) and the version    *)
(* with getGetResourceSchema (src/unnamed/part_006).                       *)
(***************************************************************************)
s_species == <<"s","p","e","c","i","e","s">>
s_color == <<"c","o","l","o","r">>
s_petOwner == <<"p","e","t","O","w","n","e","r">>
s_petowner == <<"p","e","t","o","w","n","e","r">>

\* attributes: { name: { type: string }, species: { type: string } }
SchemaAttributes == <<[name |-> s_name, type |-> "string"],
                      [name |-> s_species, type |-> "string"]>>

\* the names an attribute list draws from; color is no attribute
AttributeNames == <<s_name, s_species, s_color>>

\* 'all' | Array<string>
All == [all |-> TRUE, names |-> <<>>]
AttributeLists ==
  {All} \cup {[all |-> FALSE, names |-> Among(AttributeNames, S)] :
                S \in SUBSET Range(AttributeNames)}

\* the value of an attribute list in a schema
ListValue(list) ==
  IF list.all THEN Str("all")
  ELSE Strings([n \in DOMAIN list.names |-> Show(list.names[n])])

\* the projection without pickBy: one property per listed name
pickedAttributesOfListed(resource, allowed, refKey, refPath) ==
  LET picked == Among(AttributeNames, allowed)
  IN  ObjectOf([n \in DOMAIN picked |->
                  [k |-> Show(picked[n]),
                   t |-> Ref("schemas", refKey, refPath \o <<Show(picked[n])>>)]])

\* _(resource.attributes).pickBy(... _.includes(allowedAttributes, name))
\*   .mapValues(... $ref)
pickedAttributes(resource, allowed, refKey, refPath) ==
  LET picked == SelectSeq(resource.attributes, LAMBDA a : a.name \in allowed)
  IN  ObjectOf([n \in DOMAIN picked |->
                  [k |-> Show(picked[n].name),
                   t |-> Ref("schemas", refKey, refPath \o <<Show(picked[n].name)>>)]])

\* properties.relationships of a resource schema
relationshipsSchema(resource, resourceName) ==
  At("type", Str("object"))
  \cup At("properties",
          ObjectOf([n \in DOMAIN resource.relationships |->
                      [k |-> Show(resource.relationships[n].name),
                       t |-> getRelationship(resourceName, resource.relationships[n])]]))

\* getResourceSchema(operation, resource, resourceName) of part_005;
\* operation is get, post or patch
getResourceSchemaOf(operation, resource, resourceName) ==
  LET resourceSchemaPrefix == getResourceSchemaPrefix(resourceName)
      allowedAttributes ==
        CASE operation = s_get -> resource.getAttributes
          [] operation = s_post -> resource.postAttributes
          [] operation = s_patch -> resource.patchAttributes
      idProp == At("id", Ref("schemas", resourceSchemaPrefix \o "Id", <<>>))
      topLevelRequired ==
        IF operation = s_post THEN At("required", Strings(<<"type", "attributes">>))
        ELSE IF operation = s_patch THEN At("required", Strings(<<"type", "id">>))
        ELSE {}
      requiredAttributes ==
        IF operation = s_post
        THEN At("required",
                ListValue(IF resource.requiredPostAttributes.all
                          THEN resource.postAttributes
                          ELSE resource.requiredPostAttributes))
        ELSE {}
      attributes ==
        IF allowedAttributes.all
        THEN Ref("schemas", resourceSchemaPrefix \o "Attributes", <<>>)
        ELSE At("type", Str("object"))
             \cup requiredAttributes
             \cup At("properties",
                     pickedAttributes(resource, Range(allowedAttributes.names),
                                      resourceSchemaPrefix \o "Attributes", <<"properties">>))
  IN  At("type", Str("object"))
      \cup topLevelRequired
      \cup At("properties",
              At("type", Ref("schemas", resourceSchemaPrefix \o "Type", <<>>))
              \cup (IF operation # s_post THEN idProp ELSE {})
              \cup At("attributes", attributes)
              \* if (resource.relationships): a map, also an empty one, is truthy
              \cup At("relationships", relationshipsSchema(resource, resourceName))
              \cup (IF operation = s_get /\ resource.selfLinks
                    THEN At("links", Ref("schemas", "SelfLink", <<>>))
                    ELSE {}))

\* getGetResourceSchema(resource, resourceName) of part_006
getGetResourceSchema(resource, resourceName) ==
  LET resourceSchemaPrefix == getResourceSchemaPrefix(resourceName)
      allowed == IF resource.getAttributes.all
                 THEN {a.name : a \in Range(resource.attributes)}
                 ELSE Range(resource.getAttributes.names)
  IN  At("type", Str("object"))
      \cup At("properties",
              At("id", Ref("schemas", resourceSchemaPrefix \o "Id", <<>>))
              \cup At("type", Ref("schemas", resourceSchemaPrefix \o "Type", <<>>))
              \cup At("attributes",
                      At("type", Str("object"))
                      \cup At("properties",
                              pickedAttributes(resource, allowed,
                                               resourceSchemaPrefix \o "Attributes",
                                               <<"properties">>)))
              \cup At("relationships", relationshipsSchema(resource, resourceName))
              \cup (IF resource.selfLinks
                    THEN At("links", Ref("schemas", "SelfLink", <<>>))
                    ELSE {}))

(***************************************************************************)
(* generator.ts: the pure functions                                        *)
(***************************************************************************)
\* what a function that can throw yields
Return(v) == [threw |-> FALSE, value |-> v]
Throw == [threw |-> TRUE, value |-> <<>>]

isIdOperation(operation) == operation \in {s_getById, s_patchById, s_deleteById}

idParamName(resourceName) == Show(resourceName) \o "Id"

\* /^[a-z]+/.exec(operation)
getOperationMethod(operation) ==
  IF LowerRun(operation) = 0 THEN Throw
  ELSE Return(Take(operation, LowerRun(operation)))

\* words.splice(1, 0, resourcePart)
splice1(ws, part) ==
  IF ws = <<>> THEN <<part>> ELSE <<ws[1], part>> \o Tail(ws)

\* getOperationId with the resource name for every operation
getOperationIdOfName(operation, resourceName, resource) ==
  Show(camelCase(join(splice1(words(operation), resourceName))))

getOperationId(operation, resourceName, resource) ==
  LET resourcePart == IF operation = s_get THEN resource.plural ELSE resourceName
  IN  Show(camelCase(join(splice1(words(operation), resourcePart))))

\* getPath taking every operation that is not an id operation for a
\* collection operation
getPathOfAnyOperation(operation, plural) ==
  IF isIdOperation(operation) THEN Return("/" \o Show(plural) \o "/{id}")
  ELSE Return("/" \o Show(plural))

\* getPath with every operation on the collection path
getPathOfCollection(operation, plural) ==
  IF operation \in {s_get, s_post} \/ isIdOperation(operation)
  THEN Return("/" \o Show(plural))
  ELSE Throw

getPath(operation, plural) ==
  IF operation \in {s_get, s_post} THEN Return("/" \o Show(plural))
  ELSE IF isIdOperation(operation) THEN Return("/" \o Show(plural) \o "/{id}")
  ELSE Throw

refResponse(refName) == Ref("responses", refName, <<>>)

\* getResponses with the Result schema for post and getById alone
getResponsesOfSetResult(operation, resourceSchemaPrefix) ==
  (IF operation = s_deleteById
   THEN At("204", refResponse("204Delete"))
   ELSE LET schemaSuffix == IF operation \in {s_post, s_getById}
                            THEN "Result" ELSE "SetResult"
            code == IF operation = s_post THEN "201" ELSE "200"
        IN  At(code, At("description", Str("REPLACEME"))
                     \cup At("content", At("application/json", At("schema",
                            Ref("schemas", resourceSchemaPrefix \o schemaSuffix, <<>>))))))
  \cup (IF isIdOperation(operation) THEN At("404", refResponse("404")) ELSE {})
  \cup (IF operation = s_post THEN At("409", Ref("responses", "409Post", <<>>))
        ELSE IF operation = s_patchById THEN At("409", Ref("responses", "409Patch", <<>>))
        ELSE {})
  \cup At("500", refResponse("500"))

getResponses(operation, resourceSchemaPrefix) ==
  (IF operation = s_deleteById
   THEN At("204", refResponse("204Delete"))
   ELSE LET schemaSuffix == IF operation \in {s_post, s_patchById, s_getById}
                            THEN "Result" ELSE "SetResult"
            code == IF operation = s_post THEN "201" ELSE "200"
        IN  At(code, At("description", Str("REPLACEME"))
                     \cup At("content", At("application/json", At("schema",
                            Ref("schemas", resourceSchemaPrefix \o schemaSuffix, <<>>))))))
  \cup (IF isIdOperation(operation) THEN At("404", refResponse("404")) ELSE {})
  \cup (IF operation = s_post THEN At("409", Ref("responses", "409Post", <<>>))
        ELSE IF operation = s_patchById THEN At("409", Ref("responses", "409Patch", <<>>))
        ELSE {})
  \cup At("500", refResponse("500"))

\* getParameters with the pagination parameters for every operation of a
\* resource that paginates
getParametersOfPaginated(operation, resourceName, paginate) ==
  (IF paginate
   THEN <<Ref("parameters", "pageNumber", <<>>), Ref("parameters", "pageSize", <<>>)>>
   ELSE <<>>)
  \o (IF isIdOperation(operation)
      THEN <<Ref("parameters", idParamName(resourceName), <<>>)>>
      ELSE <<>>)

\* the list of parameters
getParameters(operation, resourceName, paginate) ==
  (IF operation = s_get /\ paginate
   THEN <<Ref("parameters", "pageNumber", <<>>), Ref("parameters", "pageSize", <<>>)>>
   ELSE <<>>)
  \o (IF isIdOperation(operation)
      THEN <<Ref("parameters", idParamName(resourceName), <<>>)>>
      ELSE <<>>)

(***************************************************************************)
(* generator.ts: buildResources, the body of its loop for one resource     *)
(***************************************************************************)
buildResource(openapi0, resource) ==
  LET resourceName == resource.name
      resourceSchemaPrefix == getResourceSchemaPrefix(resourceName)
      resourceSchemaName == resourceSchemaPrefix \o "Resource"
      d1 == set(openapi0, <<"components", "schemas", resourceSchemaName>>,
                getResourceSchema(resource, resourceName))
      d2 == set(d1, <<"components", "schemas", resourceSchemaPrefix \o "Result">>,
                getResultSchema(resourceSchemaName))
      d3 == set(d2, <<"components", "schemas", resourceSchemaPrefix \o "SetResult">>,
                getSetResultSchema(resource, resourceSchemaName))
      d4 == IF s_post \in Range(resource.operations)
            THEN set(d3, <<"components", "schemas", resourceSchemaPrefix \o "PostBody">>,
                     getRequestBodySchema(resource, resourceSchemaName, "post"))
            ELSE d3
      d5 == IF s_patchById \in Range(resource.operations)
            THEN set(d4, <<"components", "schemas", resourceSchemaPrefix \o "PatchBody">>,
                     getRequestBodySchema(resource, resourceSchemaName, "patch"))
            ELSE d4
  IN  d5

(***************************************************************************)
(* generator.ts: buildEndpoints, the parts of the body of its loop         *)
(***************************************************************************)
\* the id parameter of the resource, added whatever its operations are
buildIdParameterOfEvery(openapi0, resource) ==
  set(openapi0, <<"components", "parameters", idParamName(resource.name)>>,
      At("name", Str("id")) \cup At("in", Str("path"))
      \cup At("description", Str("REPLACEME")) \cup At("required", Str("true"))
      \cup At("schema", At("type", Str("string"))))

\* the id parameter of the resource, added if at least one endpoint uses it
buildIdParameter(openapi0, resource) ==
  IF \E n \in DOMAIN resource.operations : isIdOperation(resource.operations[n])
  THEN set(openapi0, <<"components", "parameters", idParamName(resource.name)>>,
           At("name", Str("id")) \cup At("in", Str("path"))
           \cup At("description", Str("REPLACEME")) \cup At("required", Str("true"))
           \cup At("schema", At("type", Str("string"))))
  ELSE openapi0

\* openapi.paths[path] = { [method]: operationObject }
setPathItem(openapi0, path, method, operationObject) ==
  set(openapi0, <<"paths", path>>, At(method, operationObject))

\* _.set(openapi.paths, [path, method], operationObject)
setOperation(openapi0, path, method, operationObject) ==
  set(openapi0, <<"paths", path, method>>, operationObject)

\* one resource endpoint; yields the document, or throws
buildOperation(openapi0, resource, operation) ==
  LET resourceName == resource.name
      resourceSchemaPrefix == getResourceSchemaPrefix(resourceName)
      method == getOperationMethod(operation)
      path == getPath(operation, resource.plural)
      parameters == getParameters(operation, resourceName, resource.paginate)
      parametersSchema == IF parameters # <<>> THEN At("parameters", Array(parameters)) ELSE {}
      requestBodySchema ==
        IF method.value \in {s_post, s_patch}
        THEN At("requestBody",
                At("required", Str("true"))
                \cup At("content", At("application/json", At("schema",
                       Ref("schemas",
                           resourceSchemaPrefix \o Show(capitalize(method.value)) \o "Body",
                           <<>>)))))
        ELSE {}
  IN  IF method.threw \/ path.threw THEN Throw
      ELSE Return(setOperation(openapi0, path.value, Show(method.value),
                      At("summary", Str("REPLACEME"))
                      \cup At("tags", Strings(<<Show(resource.plural)>>))
                      \cup At("description", Str("REPLACEME"))
                      \cup At("operationId",
                              Str(getOperationId(operation, resourceName, resource)))
                      \cup parametersSchema
                      \cup requestBodySchema
                      \cup At("responses", getResponses(operation, resourceSchemaPrefix))))

\* _.get(config, `resources.${type}.plural`) without the default value
pluralOfNoDefault(config, type) ==
  IF \E n \in DOMAIN config.resources : config.resources[n].name = type
  THEN Show((CHOOSE r \in Range(config.resources) : r.name = type).plural)
  ELSE "undefined"

\* _.get(config, `resources.${type}.plural`, `<plural of ${type}>`)
pluralOf(config, type) ==
  IF \E n \in DOMAIN config.resources : config.resources[n].name = type
  THEN Show((CHOOSE r \in Range(config.resources) : r.name = type).plural)
  ELSE "<plural of " \o Show(type) \o ">"

\* the methods of a to-many relationship for every relationship
relationshipMethodsOfToMany(isToMany) == <<s_get, s_patch, s_post, s_delete>>

\* the methods of a relationship endpoint, in the order of the reduce
relationshipMethods(isToMany) ==
  <<s_get, s_patch>> \o (IF isToMany THEN <<s_post, s_delete>> ELSE <<>>)

\* the operation object of one method of a relationship endpoint
relationshipOperation(config, resource, relationship, relationshipSchemaName, method) ==
  LET isUpdate == method \in {s_patch, s_post, s_delete}
  IN  At("description", Str("REPLACEME"))
      \cup At("tags", Strings(<<Show(resource.plural), pluralOf(config, relationship.type)>>))
      \cup At("parameters", Array(<<Ref("parameters", idParamName(resource.name), <<>>)>>))
      \cup (IF isUpdate
            THEN At("requestBody", Ref("requestBodies", relationshipSchemaName, <<>>))
            ELSE {})
      \cup At("responses",
              At("200", Ref("responses", relationshipSchemaName, <<>>))
              \cup (IF isUpdate
                    THEN At("204", Ref("responses", "204RelationshipUpdate", <<>>))
                    ELSE {})
              \cup At("404", Ref("responses", "404", <<>>))
              \cup At("500", Ref("responses", "500", <<>>)))

\* the schema name without the Set of a to-many relationship
schemaNameOfToOne(relationshipSchemaPrefix, isToMany) == relationshipSchemaPrefix

\* const relationshipSchemaName: the key of the response and of the request
\* body of a relationship, and the stem of the key of its result schema
schemaNameOfRelationship(relationshipSchemaPrefix, isToMany) ==
  IF isToMany THEN relationshipSchemaPrefix \o "Set" ELSE relationshipSchemaPrefix

\* one relationship endpoint; url is the value of the module's baseUrl
buildRelationship(openapi0, config, resource, relationship, url) ==
  LET resourceSchemaPrefix == getResourceSchemaPrefix(resource.name)
      relationshipName == relationship.name
      path == getPath(s_getById, resource.plural).value
                \o "/relationships/" \o Show(relationshipName)
      relationshipSchemaPrefix ==
        resourceSchemaPrefix \o getResourceSchemaPrefix(relationship.type) \o "Relationship"
      isToMany == relationship.relationshipType = "toMany"
      relationshipSchemaName == schemaNameOfRelationship(relationshipSchemaPrefix, isToMany)
      relationshipResponseSchemaName == relationshipSchemaName \o "Result"
      d1 == IF ~has(openapi0, <<"components", "schemas", relationshipSchemaPrefix>>)
            THEN set(openapi0, <<"components", "schemas", relationshipSchemaPrefix>>,
                     getRelationshipSchema(relationship))
            ELSE openapi0
      responseSchema ==
        IF isToMany
        THEN getRelationshipSetResultSchema(resource, relationshipName, url,
                                            relationshipSchemaPrefix)
        ELSE getRelationshipResultSchema(resource, relationshipName, url,
                                         relationshipSchemaPrefix)
      d2 == set(d1, <<"components", "schemas", relationshipResponseSchemaName>>,
                responseSchema)
      d3 == set(d2, <<"components", "responses", relationshipSchemaName>>,
                At("description", Str("README"))
                \cup At("content", At("application/json", At("schema",
                       Ref("schemas", relationshipResponseSchemaName, <<>>)))))
      relationshipSchemaRef == Ref("schemas", relationshipSchemaPrefix, <<>>)
      arrayData == At("type", Str("array")) \cup At("items", relationshipSchemaRef)
      singleData == At("type", Str("object"))
                    \cup At("allOf", Array(<<At("nullable", Str("true")),
                                             relationshipSchemaRef>>))
      relationshipRequestBody ==
        At("content", At("application/json", At("schema",
             At("type", Str("object"))
             \cup At("required", Strings(<<"data">>))
             \cup At("properties", At("data", IF isToMany THEN arrayData ELSE singleData)))))
      d4 == set(d3, <<"components", "requestBodies", relationshipSchemaName>>,
                relationshipRequestBody)
      methods == relationshipMethods(isToMany)
      pathsObject ==
        UNION {At(Show(methods[n]),
                  relationshipOperation(config, resource, relationship,
                                        relationshipSchemaName, methods[n])) :
                 n \in DOMAIN methods}
  IN  set(d4, <<"paths", path>>, pathsObject)

(***************************************************************************)
(* generator.ts: main, step by step                                        *)
(***************************************************************************)
VARIABLES
  configFile,   \* generator-config.yaml, as loadConfig parses it
  pc,           \* the statement of main to run next, "done" or "failed"
  config,       \* const config of main
  openapi,      \* let openapi of main: the document
  baseUrl,      \* let baseUrl of the module
  at,           \* the position of the running builder's loops
  openapiFile,  \* openapi.yaml: opened by this run, and what was written to it
  error,        \* the statement that threw, when pc = "failed"
  earlier       \* the document an earlier run of main generated, if any

vars == <<configFile, pc, config, openapi, baseUrl, at, openapiFile, error, earlier>>

\* main with the base URL read after the builders have run
mainStepsBaseUrlLast ==
  <<"loadConfig", "init", "buildResources", "buildEndpoints", "baseUrl", "open", "write">>

\* main with the output file opened before the builders run
mainStepsOpenFirst ==
  <<"loadConfig", "init", "baseUrl", "open", "buildResources", "buildEndpoints", "write">>

\* main with the endpoints built before the resource schemas
mainStepsEndpointsFirst ==
  <<"loadConfig", "init", "baseUrl", "buildEndpoints", "buildResources", "open", "write">>

\* the statements of the try block of main, in order
mainSteps ==
  <<"loadConfig", "init", "baseUrl", "buildResources", "buildEndpoints", "open", "write">>

StepIndex(step) == CHOOSE n \in DOMAIN mainSteps : mainSteps[n] = step

StepAfter(step) ==
  IF StepIndex(step) = Len(mainSteps) THEN "done" ELSE mainSteps[StepIndex(step) + 1]

\* a module variable never assigned, as a template literal renders it
Undefined == <<"undefined">>

\* the first iteration of a builder's loops
FirstAt == [resource |-> 1, part |-> "idParameter", item |-> 1]

\* how far this run of main has come: the index of the statement to run next,
\* or of the statement that threw
Position ==
  IF pc = "done" THEN Len(mainSteps) + 1
  ELSE IF pc = "failed" THEN StepIndex(error)
  ELSE StepIndex(pc)

\* the statement has returned in this run
Returned(step) == Position > StepIndex(step)

\* the builders have all returned in this run: the document is generated
Generated == Returned("init") /\ Returned("buildResources") /\ Returned("buildEndpoints")

Init ==
  /\ configFile \in Configs
  /\ pc = mainSteps[1]
  /\ config = NoConfig
  /\ openapi = {}
  /\ baseUrl = Undefined
  /\ at = FirstAt
  /\ openapiFile = [opened |-> FALSE, written |-> {}]
  /\ error = mainSteps[1]
  /\ earlier = [generated |-> FALSE, openapi |-> {}]

\* const config = await loadConfig()
loadConfig ==
  /\ pc = "loadConfig"
  /\ config' = configFile
  /\ pc' = StepAfter(pc)
  /\ UNCHANGED <<configFile, openapi, baseUrl, at, openapiFile, error, earlier>>

\* let openapi = init(config)
mainInit ==
  /\ pc = "init"
  /\ openapi' = init(config)
  /\ pc' = StepAfter(pc)
  /\ UNCHANGED <<configFile, config, baseUrl, at, openapiFile, error, earlier>>

\* baseUrl = _.get(openapi, 'servers[0].url')
mainBaseUrl ==
  /\ pc = "baseUrl"
  /\ baseUrl' = get(openapi, <<"servers", "0", "url">>, Undefined)
  /\ pc' = StepAfter(pc)
  /\ UNCHANGED <<configFile, config, openapi, at, openapiFile, error, earlier>>

\* a builder's loop over a configuration without resources
noResources ==
  /\ pc \in {"buildResources", "buildEndpoints"}
  /\ config.resources = <<>>
  /\ pc' = StepAfter(pc)
  /\ UNCHANGED <<configFile, config, openapi, baseUrl, at, openapiFile, error, earlier>>

\* openapi = buildResources(config, openapi): one iteration of its loop
buildResources ==
  /\ pc = "buildResources"
  /\ at.resource \in DOMAIN config.resources
  /\ openapi' = buildResource(openapi, config.resources[at.resource])
  /\ IF at.resource = Len(config.resources)
     THEN pc' = StepAfter(pc) /\ at' = FirstAt
     ELSE pc' = pc /\ at' = [at EXCEPT !.resource = @ + 1]
  /\ UNCHANGED <<configFile, config, baseUrl, openapiFile, error, earlier>>

\* the position after the one at `from` in the loops of buildEndpoints;
\* resource 0 when the loops are over
EndpointAfter(from) ==
  LET resource == config.resources[from.resource]
      nextResource ==
        IF from.resource = Len(config.resources)
        THEN [resource |-> 0, part |-> "idParameter", item |-> 1]
        ELSE [resource |-> from.resource + 1, part |-> "idParameter", item |-> 1]
      relationships ==
        IF resource.relationships = <<>> THEN nextResource
        ELSE [resource |-> from.resource, part |-> "relationships", item |-> 1]
  IN  CASE from.part = "idParameter" ->
             IF resource.operations = <<>> THEN relationships
             ELSE [resource |-> from.resource, part |-> "operations", item |-> 1]
        [] from.part = "operations" ->
             IF from.item = Len(resource.operations) THEN relationships
             ELSE [from EXCEPT !.item = @ + 1]
        [] from.part = "relationships" ->
             IF from.item = Len(resource.relationships) THEN nextResource
             ELSE [from EXCEPT !.item = @ + 1]

EndpointStep ==
  IF EndpointAfter(at).resource = 0
  THEN pc' = StepAfter(pc) /\ at' = FirstAt
  ELSE pc' = pc /\ at' = EndpointAfter(at)

\* buildEndpoints: the id parameter of the resource
buildEndpointsIdParameter ==
  /\ pc = "buildEndpoints"
  /\ at.resource \in DOMAIN config.resources
  /\ at.part = "idParameter"
  /\ openapi' = buildIdParameter(openapi, config.resources[at.resource])
  /\ EndpointStep
  /\ UNCHANGED <<configFile, config, baseUrl, openapiFile, error, earlier>>

\* buildEndpoints: one operation of the resource; a throw reaches the catch
\* of main, which prints the error and exits with status 1
buildEndpointsOperation ==
  /\ pc = "buildEndpoints"
  /\ at.resource \in DOMAIN config.resources
  /\ at.part = "operations"
  /\ LET resource == config.resources[at.resource]
         built == buildOperation(openapi, resource, resource.operations[at.item])
     IN  IF built.threw
         THEN /\ pc' = "failed"
              /\ error' = "buildEndpoints"
              /\ UNCHANGED <<openapi, at>>
         ELSE /\ openapi' = built.value
              /\ EndpointStep
              /\ UNCHANGED error
  /\ UNCHANGED <<configFile, config, baseUrl, openapiFile, earlier>>

\* buildEndpoints: one relationship of the resource
buildEndpointsRelationship ==
  /\ pc = "buildEndpoints"
  /\ at.resource \in DOMAIN config.resources
  /\ at.part = "relationships"
  /\ LET resource == config.resources[at.resource]
     IN  openapi' = buildRelationship(openapi, config, resource,
                                      resource.relationships[at.item], baseUrl)
  /\ EndpointStep
  /\ UNCHANGED <<configFile, config, baseUrl, openapiFile, error, earlier>>

\* const openapiFile = await fsPromises.open('openapi.yaml', 'w')
openFile ==
  /\ pc = "open"
  /\ openapiFile' = [opened |-> TRUE, written |-> {}]
  /\ pc' = StepAfter(pc)
  /\ UNCHANGED <<configFile, config, openapi, baseUrl, at, error, earlier>>

\* await openapiFile.write(yaml.safeDump(openapi, { lineWidth: 100 }))
writeFile ==
  /\ pc = "write"
  /\ openapiFile.opened
  /\ openapiFile' = [openapiFile EXCEPT !.written = openapi]
  /\ pc' = StepAfter(pc)
  /\ UNCHANGED <<configFile, config, openapi, baseUrl, at, error, earlier>>

\* an await of main rejects (the file system fails): the catch of main
ioError ==
  /\ pc \in {"loadConfig", "open", "write"}
  /\ pc' = "failed"
  /\ error' = pc
  /\ UNCHANGED <<configFile, config, openapi, baseUrl, at, openapiFile, earlier>>

\* main runs again, on the same configuration file; what is left of the
\* earlier run is the file it wrote and the module's baseUrl (a new process
\* starts with baseUrl unassigned, as the first run does)
runAgain ==
  /\ pc \in {"done", "failed"}
  /\ earlier' = IF Generated THEN [generated |-> TRUE, openapi |-> openapi] ELSE earlier
  /\ pc' = mainSteps[1]
  /\ config' = NoConfig
  /\ openapi' = {}
  /\ at' = FirstAt
  /\ error' = mainSteps[1]
  /\ openapiFile' = [openapiFile EXCEPT !.opened = FALSE]
  /\ UNCHANGED <<configFile, baseUrl>>

Next ==
  \/ loadConfig
  \/ mainInit
  \/ mainBaseUrl
  \/ noResources
  \/ buildResources
  \/ buildEndpointsIdParameter
  \/ buildEndpointsOperation
  \/ buildEndpointsRelationship
  \/ openFile
  \/ writeFile
  \/ ioError
  \/ runAgain

Spec == Init /\ [][Next]_vars

(***************************************************************************)
(* main as a function of the configuration: the document its builders      *)
(* leave, or a throw.                                                      *)
(***************************************************************************)
\* buildResources: the loop over the resources
RECURSIVE buildResourcesAll(_, _)
buildResourcesAll(openapi0, resources) ==
  IF resources = <<>> THEN openapi0
  ELSE buildResourcesAll(buildResource(openapi0, resources[1]), Tail(resources))

\* buildEndpoints: the loop over the operations of a resource
RECURSIVE buildOperationsAll(_, _, _)
buildOperationsAll(openapi0, resource, operations) ==
  IF operations = <<>> THEN Return(openapi0)
  ELSE LET built == buildOperation(openapi0, resource, operations[1])
       IN  IF built.threw THEN Throw
           ELSE buildOperationsAll(built.value, resource, Tail(operations))

\* buildEndpoints: the loop over the relationships of a resource
RECURSIVE buildRelationshipsAll(_, _, _, _, _)
buildRelationshipsAll(openapi0, cfg, resource, relationships, url) ==
  IF relationships = <<>> THEN openapi0
  ELSE buildRelationshipsAll(buildRelationship(openapi0, cfg, resource, relationships[1], url),
                             cfg, resource, Tail(relationships), url)

\* buildEndpoints: the loop over the resources
RECURSIVE buildEndpointsAll(_, _, _, _)
buildEndpointsAll(openapi0, cfg, resources, url) ==
  IF resources = <<>> THEN Return(openapi0)
  ELSE LET resource == resources[1]
           built == buildOperationsAll(buildIdParameter(openapi0, resource), resource,
                                       resource.operations)
       IN  IF built.threw THEN Throw
           ELSE buildEndpointsAll(
                  buildRelationshipsAll(built.value, cfg, resource, resource.relationships, url),
                  cfg, Tail(resources), url)

\* init, baseUrl, buildResources and buildEndpoints of main
generate(cfg) ==
  LET openapi0 == init(cfg)
      url == get(openapi0, <<"servers", "0", "url">>, Undefined)
  IN  buildEndpointsAll(buildResourcesAll(openapi0, cfg.resources), cfg, cfg.resources, url)

(***************************************************************************)
(* main over configurations whose lists come in every order: operations    *)
(* lists with repeated tokens, relationship maps and resource maps in any   *)
(* iteration order, relationships that share a type.                       *)
(***************************************************************************)
s_vet == <<"v","e","t">>

\* the sequences over S of length at most n
SeqsUpTo(S, n) == UNION {[1..k -> S] : k \in 0..n}

\* no element occurs twice
IsInjective(seq) == \A i, j \in DOMAIN seq : seq[i] = seq[j] => i = j

OrderNames == <<[name |-> s_pet, plural |-> s_pets],
                [name |-> s_owner, plural |-> s_owners]>>

OrderOperations == {s_get, s_post, s_getById}

\* owner and vet are both to-one relationships to an owner
OrderRelationships ==
  {[name |-> s_owner, type |-> s_owner, relationshipType |-> "toOne"],
   [name |-> s_vet, type |-> s_owner, relationshipType |-> "toOne"]}

\* an operation or a relationship counts once
OrderSize(r) == 1 + Len(r.operations) + Len(r.relationships)

\* interface Resource, of size at most budget
OrderResources(budget) ==
  {r \in {[name |-> e.name,
           plural |-> e.plural,
           selfLinks |-> TRUE,
           paginate |-> FALSE,
           operations |-> ops,
           requiredPostAttributes |-> [all |-> TRUE, names |-> <<>>],
           attributes |-> Attributes,
           relationships |-> rels] :
             e \in Range(OrderNames),
             ops \in SeqsUpTo(OrderOperations, budget - 1),
             rels \in {l \in SeqsUpTo(OrderRelationships, 2) : IsInjective(l)}} :
     OrderSize(r) <= budget}

\* the resource maps of at most two resources, in either iteration order
OrderResourceMaps ==
  {<<>>} \cup {<<r>> : r \in OrderResources(MaxConfigSize)}
  \cup (IF MaxResources < 2 THEN {}
        ELSE UNION {{<<r1, r2>> :
                       r2 \in {x \in OrderResources(MaxConfigSize - OrderSize(r1)) :
                                 x.name # r1.name}} :
                      r1 \in OrderResources(MaxConfigSize - 1)})

OrderConfigs ==
  {[version |-> "v1", title |-> "REPLACEME", githubUrl |-> "REPLACEME",
    resources |-> rs] : rs \in OrderResourceMaps}

OrderInit ==
  /\ configFile \in OrderConfigs
  /\ pc = mainSteps[1]
  /\ config = NoConfig
  /\ openapi = {}
  /\ baseUrl = Undefined
  /\ at = FirstAt
  /\ openapiFile = [opened |-> FALSE, written |-> {}]
  /\ error = mainSteps[1]
  /\ earlier = [generated |-> FALSE, openapi |-> {}]

OrderSpec == OrderInit /\ [][Next]_vars

(***************************************************************************)
(* The schema functions of resourceSchemas.ts applied to one resource      *)
(* each: configFile holds the resource, at.part the function applied last  *)
(* and openapi the schema it returned.                                     *)
(***************************************************************************)
\* the names of the resource
SchemaResourceNames == <<[name |-> s_pet, plural |-> s_pets],
                         [name |-> s_petOwner, plural |-> s_owners],
                         [name |-> s_petowner, plural |-> s_owners]>>

\* the number of names a list names
ListSize(list) == Len(list.names)

\* interface Resource with its attribute lists; the lists name at most
\* MaxConfigSize names together
SchemaResources ==
  {r \in [name : {e.name : e \in Range(SchemaResourceNames)},
          plural : {e.plural : e \in Range(SchemaResourceNames)},
          selfLinks : BOOLEAN,
          paginate : {FALSE},
          operations : {<<s_get, s_post, s_patchById>>},
          getAttributes : AttributeLists,
          postAttributes : AttributeLists,
          patchAttributes : AttributeLists,
          requiredPostAttributes : AttributeLists,
          attributes : {SchemaAttributes},
          relationships : {<<[name |-> s_owner, type |-> s_owner,
                              relationshipType |-> "toOne"]>>}] :
     /\ [name |-> r.name, plural |-> r.plural] \in Range(SchemaResourceNames)
     /\ ListSize(r.getAttributes) + ListSize(r.postAttributes)
          + ListSize(r.patchAttributes) + ListSize(r.requiredPostAttributes)
          <= MaxConfigSize}

SchemaConfigs ==
  {[version |-> "v1", title |-> "REPLACEME", githubUrl |-> "REPLACEME",
    resources |-> <<r>>] : r \in SchemaResources}

SchemaInit ==
  /\ configFile \in SchemaConfigs
  /\ pc = "schemas"
  /\ config = NoConfig
  /\ openapi = {}
  /\ baseUrl = Undefined
  /\ at = FirstAt
  /\ openapiFile = [opened |-> FALSE, written |-> {}]
  /\ error = mainSteps[1]
  /\ earlier = [generated |-> FALSE, openapi |-> {}]

\* getResourceSchema(operation, resource, resourceName) of part_005
resourceSchemaOf(operation) ==
  /\ pc = "schemas"
  /\ pc' = "returned"
  /\ config' = configFile
  /\ openapi' = getResourceSchemaOf(operation, configFile.resources[1],
                                    configFile.resources[1].name)
  /\ at' = [resource |-> 1, part |-> Show(operation), item |-> 1]
  /\ UNCHANGED <<configFile, baseUrl, openapiFile, error, earlier>>

\* getGetResourceSchema(resource, resourceName) of part_006
getResourceSchemaReturns ==
  /\ pc = "schemas"
  /\ pc' = "returned"
  /\ config' = configFile
  /\ openapi' = getGetResourceSchema(configFile.resources[1], configFile.resources[1].name)
  /\ at' = [resource |-> 1, part |-> "getGetResourceSchema", item |-> 1]
  /\ UNCHANGED <<configFile, baseUrl, openapiFile, error, earlier>>

\* getRequestBodySchema(resource, resourceSchemaName, 'post') of
\* src/resourceSchemas.ts
postBodySchemaReturns ==
  /\ pc = "schemas"
  /\ pc' = "returned"
  /\ config' = configFile
  /\ openapi' = getRequestBodySchema(
                  configFile.resources[1],
                  getResourceSchemaPrefix(configFile.resources[1].name) \o "Resource",
                  "post")
  /\ at' = [resource |-> 1, part |-> "getRequestBodySchema", item |-> 1]
  /\ UNCHANGED <<configFile, baseUrl, openapiFile, error, earlier>>

SchemaNext ==
  \/ \E operation \in {s_get, s_post, s_patch} : resourceSchemaOf(operation)
  \/ getResourceSchemaReturns
  \/ postBodySchemaReturns

SchemaSpec == SchemaInit /\ [][SchemaNext]_vars

(***************************************************************************)
(* The parameters of an operation of a resource with filterParams          *)
(* (Resource.filterParams of src/unnamed/part_009). No getParameters of    *)
(* the sources reads filterParams: getParametersOfResource follows the     *)
(* specification's parameters(operation, resourceName, resource).          *)
(***************************************************************************)
s_yearsOwned == <<"y","e","a","r","s","O","w","n","e","d">>

\* operators of type FilterParamType
FilterParamTypes == <<"eq", "gte", "lte">>

\* attributes: species: {type: string}, yearsOwned: {type: number, format: float}
FilterAttributes == <<[name |-> s_species, type |-> "string", format |-> ""],
                      [name |-> s_yearsOwned, type |-> "number", format |-> "float"]>>

\* the names filterParams draws from; color is no attribute
FilterNames == <<s_species, s_yearsOwned, s_color>>

\* filterParams: { [key: string]: Array<FilterParamType> }, the entries in the
\* order of FilterNames
RECURSIVE FilterMaps(_)
FilterMaps(names) ==
  IF names = <<>> THEN {<<>>}
  ELSE LET rest == FilterMaps(Tail(names))
       IN  rest \cup
           {<<[name |-> names[1], operators |-> Among(FilterParamTypes, S)]>> \o r :
              S \in SUBSET Range(FilterParamTypes), r \in rest}

\* the number of (attributeName, operator) pairs of filterParams
RECURSIVE PairCount(_)
PairCount(filterParams) ==
  IF filterParams = <<>> THEN 0
  ELSE Len(filterParams[1].operators) + PairCount(Tail(filterParams))

\* interface Resource with filterParams, of at most MaxConfigSize pairs
FilterResources ==
  {r \in [name : {s_pet},
          plural : {s_pets},
          paginate : BOOLEAN,
          operations : {OperationType},
          filterParams : FilterMaps(FilterNames),
          attributes : {FilterAttributes}] :
     PairCount(r.filterParams) <= MaxConfigSize}

FilterConfigs ==
  {[version |-> "v1", title |-> "REPLACEME", githubUrl |-> "REPLACEME",
    resources |-> <<r>>] : r \in FilterResources}

\* filter[<attributeName>][<operator>] for every operator
filterNameOfOperator(attributeName, operator) ==
  "filter[" \o Show(attributeName) \o "][" \o operator \o "]"

\* filter[<attributeName>] for eq, filter[<attributeName>][<operator>] otherwise
filterName(attributeName, operator) ==
  IF operator = "eq" THEN "filter[" \o Show(attributeName) \o "]"
  ELSE "filter[" \o Show(attributeName) \o "][" \o operator \o "]"

\* type and format of the matching attribute definition, when there is one
filterSchema(resource, attributeName) ==
  IF \E a \in Range(resource.attributes) : a.name = attributeName
  THEN LET a == CHOOSE x \in Range(resource.attributes) : x.name = attributeName
       IN  At("type", Str(a.type))
           \cup (IF a.format = "" THEN {} ELSE At("format", Str(a.format)))
  ELSE EmptyObject

\* the query parameters of one entry of filterParams
filterParameters(resource, entry) ==
  [n \in DOMAIN entry.operators |->
     At("name", Str(filterName(entry.name, entry.operators[n])))
     \cup At("in", Str("query"))
     \cup At("schema", filterSchema(resource, entry.name))]

\* the query parameters of filterParams
RECURSIVE allFilterParameters(_, _)
allFilterParameters(resource, filterParams) ==
  IF filterParams = <<>> THEN <<>>
  ELSE filterParameters(resource, filterParams[1])
         \o allFilterParameters(resource, Tail(filterParams))

\* parameters(operation, resourceName, resource)
getParametersOfResource(operation, resourceName, resource) ==
  (IF operation = s_get /\ resource.paginate
   THEN <<Ref("parameters", "pageNumber", <<>>), Ref("parameters", "pageSize", <<>>)>>
   ELSE <<>>)
  \o (IF operation = s_get
      THEN allFilterParameters(resource, resource.filterParams)
      ELSE <<>>)
  \o (IF isIdOperation(operation)
      THEN <<Ref("parameters", idParamName(resourceName), <<>>)>>
      ELSE <<>>)

FilterInit ==
  /\ configFile \in FilterConfigs
  /\ pc = "parameters"
  /\ config = NoConfig
  /\ openapi = {}
  /\ baseUrl = Undefined
  /\ at = FirstAt
  /\ openapiFile = [opened |-> FALSE, written |-> {}]
  /\ error = mainSteps[1]
  /\ earlier = [generated |-> FALSE, openapi |-> {}]

\* the parameters of one operation of the resource; openapi holds the
\* operation object's parameters
parametersOf(operation) ==
  /\ pc = "parameters"
  /\ pc' = "returned"
  /\ config' = configFile
  /\ openapi' = At("parameters",
                   Array(getParametersOfResource(operation, configFile.resources[1].name,
                                                 configFile.resources[1])))
  /\ at' = [resource |-> 1, part |-> Show(operation), item |-> 1]
  /\ UNCHANGED <<configFile, baseUrl, openapiFile, error, earlier>>

FilterNext == \E operation \in Range(OperationType) : parametersOf(operation)

FilterSpec == FilterInit /\ [][FilterNext]_vars

(***************************************************************************)
(* Reading the generated document.                                         *)
(***************************************************************************)
\* the references of the document: the leaves under a "$ref" key
Refs(doc) == {e \in doc : e.p # <<>> /\ e.p[Len(e.p)] = "$ref"}

\* the reference "#/components/<section>/<key>/..." points at something the
\* document holds
Resolves(doc, ref) == Len(ref) > 1 /\ ref[1] = "#" /\ has(doc, Tail(ref))

\* every relationship of the configuration names a configured resource
TargetsConfigured(cfg) ==
  \A r \in Range(cfg.resources) : \A l \in Range(r.relationships) :
    \E t \in Range(cfg.resources) : t.name = l.type

\* C1: once the document is generated, every "$ref" in it names a component
\* that was inserted into the same document: no reference dangles (here for
\* configurations whose relationships all name configured resources).
C1_NoDanglingReference ==
  (Generated /\ TargetsConfigured(config)) =>
    \A e \in Refs(openapi) : Resolves(openapi, e.v)

\* C2: a second run of main on the same configuration generates the same
\* document as the earlier run did.
C2_SameDocumentAgain ==
  (Generated /\ earlier.generated) => openapi = earlier.openapi

\* a second run has generated a document whose relationship schemas carry
\* the base URL
C2_Witness ==
  /\ pc = "done"
  /\ earlier.generated
  /\ baseUrl # Undefined
  /\ \E r \in Range(config.resources) : r.relationships # <<>>

\* operation k of resource n has been built in this run of main
Built(n, k) ==
  \/ Returned("buildEndpoints")
  \/ /\ Position = StepIndex("buildEndpoints")
     /\ \/ n < at.resource
        \/ n = at.resource /\ at.part = "relationships"
        \/ n = at.resource /\ at.part = "operations" /\ k < at.item

\* C3: if a resource lists an operation token that is none of get, getById,
\* post, patchById, deleteById, the run fails without a document: the
\* builders never get past the token, nothing is generated, and the output
\* file is neither opened nor written.
C3_InvalidOperationFails ==
  \A n \in DOMAIN configFile.resources :
    \A k \in DOMAIN configFile.resources[n].operations :
      configFile.resources[n].operations[k] \notin Range(OperationType) =>
        /\ ~Built(n, k)
        /\ ~Generated
        /\ pc # "done"
        /\ ~openapiFile.opened
        /\ openapiFile.written = {}

\* the run has failed at a token that has a lower-case verb but is not an
\* operation, after building a valid operation of the same resource
C3_Witness ==
  /\ pc = "failed"
  /\ error = "buildEndpoints"
  /\ at.part = "operations"
  /\ at.item > 1
  /\ config.resources[at.resource].operations[at.item] = s_getAll

\* C4: the output file is opened, and written, only once every builder has
\* returned; a run that fails in a builder leaves the file unopened, and
\* whatever the file holds is a completely generated document.
C4_OutputAfterBuilders ==
  /\ openapiFile.opened => Generated
  /\ (pc = "failed" /\ error = "buildEndpoints") => ~openapiFile.opened
  /\ openapiFile.written # {} =>
       \/ pc = "done" /\ openapiFile.written = openapi
       \/ earlier.generated /\ openapiFile.written = earlier.openapi

\* a builder has thrown at the second resource, with endpoints of the first
\* already in the document
C4_Witness ==
  /\ pc = "failed"
  /\ error = "buildEndpoints"
  /\ at.resource = 2
  /\ KeysAt(openapi, <<"paths">>) # {}
  /\ ~openapiFile.opened

(***************************************************************************)
(* What the specification expects of a resource's operations.              *)
(***************************************************************************)
\* the HTTP method of an operation
operationMethod(operation) ==
  CASE operation \in {s_get, s_getById} -> "get"
    [] operation = s_post -> "post"
    [] operation = s_patchById -> "patch"
    [] operation = s_deleteById -> "delete"
    [] OTHER -> "none"

collectionPath(resource) == "/" \o Show(resource.plural)
byIdPath(resource) == collectionPath(resource) \o "/{id}"

\* the path of an operation
operationPath(resource, operation) ==
  IF operation \in {s_get, s_post} THEN collectionPath(resource) ELSE byIdPath(resource)

relationshipPath(resource, relationship) ==
  byIdPath(resource) \o "/relationships/" \o Show(relationship.name)

\* the value of the scalar at path, <<>> if the document has none there
ValueAt(doc, path) == get(doc, path, <<>>)

\* C5: of each resource, the path-items generated for its operations are the
\* distinct paths of its operations, and the methods of each such path-item
\* are exactly the methods of the operations with that path: none missing,
\* none extra, none overwritten.
C5_PathItemsOfOperations ==
  Generated =>
    /\ KeysAt(openapi, <<"paths">>)
         \ {relationshipPath(r, l) : r \in Range(config.resources), l \in Range(RelationshipNames)}
       = UNION {{operationPath(r, o) : o \in Range(r.operations)} :
                  r \in Range(config.resources)}
    /\ \A r \in Range(config.resources) : \A o \in Range(r.operations) :
         KeysAt(openapi, <<"paths", operationPath(r, o)>>)
           = {operationMethod(x) :
                x \in {y \in Range(r.operations) : operationPath(r, y) = operationPath(r, o)}}

\* a document is written for a resource with two operations on one path and
\* one on the other
C5_Witness ==
  /\ pc = "done"
  /\ \E r \in Range(config.resources) :
       {s_get, s_post, s_getById} \subseteq Range(r.operations)

operationId(operation, resource) ==
  CASE operation = s_get -> "get" \o Show(upperFirst(resource.plural))
    [] operation = s_getById -> "get" \o Show(upperFirst(resource.name)) \o "ById"
    [] operation = s_post -> "post" \o Show(upperFirst(resource.name))
    [] operation = s_patchById -> "patch" \o Show(upperFirst(resource.name)) \o "ById"
    [] operation = s_deleteById -> "delete" \o Show(upperFirst(resource.name)) \o "ById"
    [] OTHER -> "none"

\* C7: the operationId of get is the verb followed by the plural; of every
\* other operation it is the words of the operation with the resource name
\* as second word, in camel case: patchById on owner gives patchOwnerById,
\* getById on pet gives getPetById, post on pet gives postPet.
C7_OperationId ==
  Generated =>
    \A r \in Range(config.resources) : \A o \in Range(r.operations) :
      LET id == ValueAt(openapi,
                        <<"paths", operationPath(r, o), operationMethod(o), "operationId">>)
      IN  /\ id = <<operationId(o, r)>>
          /\ (r.name = s_owner /\ o = s_patchById) => id = <<"patchOwnerById">>
          /\ (r.name = s_pet /\ o = s_getById) => id = <<"getPetById">>
          /\ (r.name = s_pet /\ o = s_post) => id = <<"postPet">>
          /\ (r.name = s_pet /\ o = s_get) => id = <<"getPets">>

\* a document is written for owner with get and patchById
C7_Witness ==
  /\ pc = "done"
  /\ \E r \in Range(config.resources) :
       r.name = s_owner /\ {s_get, s_patchById} \subseteq Range(r.operations)

\* the operationIds of the document: the leaves paths.<path>.<method>.operationId
OperationIds(doc) ==
  {e \in doc : Len(e.p) = 4 /\ e.p[1] = "paths" /\ e.p[4] = "operationId"}

\* C8: no two distinct (path, method) pairs of the generated document carry
\* the same operationId (resource names are unique, and so are the operation
\* tokens of each resource, in every configuration).
C8_UniqueOperationIds ==
  Generated =>
    \A e \in OperationIds(openapi) : \A f \in OperationIds(openapi) :
      e.v = f.v => e.p = f.p

\* C9: schemas Meta and PaginationLinks and parameters pageNumber and
\* pageSize are among the components if and only if some resource
\* paginates; when they are, each is the one entry init inserted, whatever
\* the number of resources that paginate.
C9_PaginationEntries ==
  Returned("init") =>
    LET paginated == \E r \in Range(config.resources) : r.paginate
    IN  /\ \A k \in {"Meta", "PaginationLinks"} :
             /\ k \in KeysAt(openapi, <<"components", "schemas">>) <=> paginated
             /\ paginated => TreeAt(openapi, <<"components", "schemas", k>>)
                               = TreeAt(paginationSchemas, <<k>>)
        /\ \A k \in {"pageNumber", "pageSize"} :
             /\ k \in KeysAt(openapi, <<"components", "parameters">>) <=> paginated
             /\ paginated => TreeAt(openapi, <<"components", "parameters", k>>)
                               = TreeAt(paginationParameters, <<k>>)

\* a document is written for two resources that both paginate
C9_Witness ==
  /\ pc = "done"
  /\ Len(config.resources) = 2
  /\ \A r \in Range(config.resources) : r.paginate

\* C10: for each relationship of a resource the document has the path
\* <by-id path of the resource>/relationships/<relationship>, with exactly
\* the methods get and patch if the relationship is to-one and exactly get,
\* patch, post and delete if it is to-many.
C10_RelationshipEndpoints ==
  Generated =>
    \A r \in Range(config.resources) : \A l \in Range(r.relationships) :
      KeysAt(openapi, <<"paths", relationshipPath(r, l)>>)
        = IF l.relationshipType = "toOne" THEN {"get", "patch"}
          ELSE {"get", "patch", "post", "delete"}

\* a document is written for a resource with an id operation and a to-one
\* relationship
C10_Witness ==
  /\ pc = "done"
  /\ \E r \in Range(config.resources) :
       /\ \E o \in Range(r.operations) : isIdOperation(o)
       /\ \E l \in Range(r.relationships) : l.relationshipType = "toOne"

\* resource pet has the to-many relationship siblings of type pet
PetHasSiblings(cfg) ==
  \E r \in Range(cfg.resources) :
    /\ r.name = s_pet
    /\ r.plural = s_pets
    /\ \E l \in Range(r.relationships) :
         l.name = s_siblings /\ l.type = s_pet /\ l.relationshipType = "toMany"

TheResource == configFile.resources[1]

\* the names of a sequence of strings as they are written in a document
Shown(names) == [n \in DOMAIN names |-> Show(names[n])]

\* the keys of the attributes map
AttributeKeys(resource) == [n \in DOMAIN resource.attributes |-> resource.attributes[n].name]

\* the required list the specification gives the attributes of a post
\* variant: requiredPostAttributes, "all" standing for every attribute key
requiredOfPost(resource) ==
  IF resource.requiredPostAttributes.all
  THEN Strings(Shown(AttributeKeys(resource)))
  ELSE Strings(Shown(resource.requiredPostAttributes.names))

\* C12: the attributes schema of the post variant of a resource schema
\* declares required equal to the requiredPostAttributes list, or to all
\* attribute keys when requiredPostAttributes is "all", whatever
\* postAttributes is.
C12_RequiredOfPostVariant ==
  (pc = "returned" /\ at.part = "post") =>
    TreeAt(openapi, <<"properties", "attributes", "required">>)
      = requiredOfPost(TheResource)

\* the attribute list that governs the schema returned last
ListOfPart(resource) ==
  CASE at.part = "get" -> resource.getAttributes
    [] at.part = "getGetResourceSchema" -> resource.getAttributes
    [] at.part = "post" -> resource.postAttributes
    [] at.part = "patch" -> resource.patchAttributes
    [] OTHER -> All

\* the properties of the attributes projection of the returned schema
ProjectedNames == KeysAt(openapi, <<"properties", "attributes", "properties">>)

\* C13: when getAttributes, postAttributes or patchAttributes is an explicit
\* list, the resource schema is returned also if the list holds a name that
\* is no key of the attributes map, and the properties of its attributes
\* projection are exactly the listed names that are keys of the map.
C13_UnknownNamesDropped ==
  (pc = "returned" /\ ~ListOfPart(TheResource).all) =>
    ProjectedNames = {Show(name) : name \in Range(ListOfPart(TheResource).names)
                                           \cap Range(AttributeKeys(TheResource))}

\* patchAttributes [name, color] was projected to name alone
C13_Witness ==
  /\ pc = "returned"
  /\ at.part = "patch"
  /\ TheResource.patchAttributes = [all |-> FALSE, names |-> <<s_name, s_color>>]
  /\ ProjectedNames = {"name"}

(***************************************************************************)
(* Relationships to resources the configuration does not hold.             *)
(***************************************************************************)
\* the relationship names a resource that is no key of config.resources
TargetMissing(cfg, relationship) ==
  \A t \in Range(cfg.resources) : t.name # relationship.type

\* every operation token of the configuration is an OperationType
TokensValid(cfg) ==
  \A r \in Range(cfg.resources) : Range(r.operations) \subseteq Range(OperationType)

\* C14: a relationship whose type is no key of config.resources does not make
\* a builder fail (with valid operation tokens only reading the
\* configuration or writing the file can fail), and once the document is
\* generated each operation of the relationship's endpoint carries the
\* placeholder "<plural of <type>>" as its second tag.
C14_MissingTargetTolerated ==
  /\ (pc = "failed" /\ TokensValid(config)) => error \in {"loadConfig", "open", "write"}
  /\ Generated =>
       \A r \in Range(config.resources) : \A l \in Range(r.relationships) :
         TargetMissing(config, l) =>
           \A method \in KeysAt(openapi, <<"paths", relationshipPath(r, l)>>) :
             /\ ValueAt(openapi, <<"paths", relationshipPath(r, l), method, "tags", "0">>)
                  = <<Show(r.plural)>>
             /\ ValueAt(openapi, <<"paths", relationshipPath(r, l), method, "tags", "1">>)
                  = <<"<plural of " \o Show(l.type) \o ">">>

\* a document is written for pet alone, whose relationship owner names the
\* resource owner
C14_Witness ==
  /\ pc = "done"
  /\ Len(config.resources) = 1
  /\ config.resources[1].name = s_pet
  /\ \E l \in Range(config.resources[1].relationships) :
       /\ l.type = s_owner
       /\ KeysAt(openapiFile.written, <<"paths", relationshipPath(config.resources[1], l)>>) # {}

(***************************************************************************)
(* The keys the builders write.                                            *)
(***************************************************************************)
\* C15: getResourceSchemaPrefix is injective over unique resource names: the
\* prefix of the resource a schema was built for is the prefix of no other
\* resource name, also not of one that differs from it only in the case of
\* letters after the first (petOwner and petowner).
C15_PrefixInjective ==
  pc = "returned" =>
    \A e \in Range(SchemaResourceNames) :
      e.name # TheResource.name =>
        getResourceSchemaPrefix(e.name) # getResourceSchemaPrefix(TheResource.name)

\* the sections of the document the builders insert into
ComponentSections == {"schemas", "parameters", "responses", "requestBodies"}

\* the entries of the document: the components by section and key, the
\* operations by path and method
Entries(doc) ==
  UNION {{<<"components", s, k>> : k \in KeysAt(doc, <<"components", s>>)} :
           s \in ComponentSections}
  \cup UNION {{<<"paths", p, method>> : method \in KeysAt(doc, <<"paths", p>>)} :
                p \in KeysAt(doc, <<"paths">>)}

\* a step of a builder leaves every entry of the document as it is
EntriesKept ==
  pc \in {"buildResources", "buildEndpoints"} =>
    \A e \in Entries(openapi) : TreeAt(openapi', e) = TreeAt(openapi, e)

\* C16: while the builders run, every entry the document holds (a skeleton
\* entry of the initializer or an entry written for a resource) stays as it
\* is: a builder only inserts under keys not yet present.
C16_EntriesNeverReplaced == [][EntriesKept]_vars

(***************************************************************************)
(* The scenario of one resource pet.                                       *)
(***************************************************************************)
\* resource pet alone, with plural pets, operations [get, getById, post],
\* attributes {name: string} and paginate false
PetScenario(cfg) ==
  /\ Len(cfg.resources) = 1
  /\ cfg.resources[1].name = s_pet
  /\ cfg.resources[1].plural = s_pets
  /\ cfg.resources[1].operations = <<s_get, s_getById, s_post>>
  /\ cfg.resources[1].attributes = Attributes
  /\ ~cfg.resources[1].paginate

SchemaKeys(doc) == KeysAt(doc, <<"components", "schemas">>)

OperationAt(resource, operation) ==
  <<"paths", operationPath(resource, operation), operationMethod(operation)>>

\* the status codes of the table, those of deleteById being deleteCodes
StatusCodes(operation, deleteCodes) ==
  CASE operation = s_get -> {"200", "500"}
    [] operation = s_getById -> {"200", "404", "500"}
    [] operation = s_post -> {"201", "409", "500"}
    [] operation = s_patchById -> {"200", "404", "409", "500"}
    [] operation = s_deleteById -> deleteCodes
    [] OTHER -> {}

\* the shared response each status code but the success code refers to
SharedResponse(operation, code) ==
  CASE code = "204" -> "204Delete"
    [] code = "404" -> "404"
    [] code = "409" /\ operation = s_post -> "409Post"
    [] code = "409" /\ operation = s_patchById -> "409Patch"
    [] code = "500" -> "500"
    [] OTHER -> "none"

\* the response map of every operation is the one of the table
ResponsesFollowTable(deleteCodes) ==
  \A r \in Range(config.resources) : \A o \in Range(r.operations) :
    LET responses == OperationAt(r, o) \o <<"responses">>
        prefix == Show(upperFirst(toLower(r.name)))
        success == IF o = s_post THEN "201" ELSE "200"
        suffix == IF o = s_get THEN "SetResult" ELSE "Result"
    IN  /\ KeysAt(openapi, responses) = StatusCodes(o, deleteCodes)
        /\ o # s_deleteById =>
             ValueAt(openapi, responses \o <<success, "content", "application/json",
                                             "schema", "$ref">>)
               = <<"#", "components", "schemas", prefix \o suffix>>
        /\ \A code \in KeysAt(openapi, responses) \ {"200", "201"} :
             ValueAt(openapi, responses \o <<code, "$ref">>)
               = <<"#", "components", "responses", SharedResponse(o, code)>>

\* C18 as the specification states it: the response map of each operation
\* equals the table, in which deleteById has 204 and 500.
C18_ResponsesAsStated == Generated => ResponsesFollowTable({"204", "500"})

\* C18: the response map of each operation equals the table: get has 200
\* (SetResult) and 500; getById 200 (Result), 404 and 500; post 201 (Result),
\* 409 (409Post) and 500; patchById 200 (Result), 404, 409 (409Patch) and
\* 500; deleteById 204 (204Delete), 404 and 500.
C18_ResponseTable == Generated => ResponsesFollowTable({"204", "404", "500"})

\* a document is written for a resource with get, patchById and deleteById
C18_Witness ==
  /\ pc = "done"
  /\ \E r \in Range(config.resources) :
       /\ {s_get, s_patchById, s_deleteById} \subseteq Range(r.operations)
       /\ KeysAt(openapiFile.written, OperationAt(r, s_deleteById) \o <<"responses">>) # {}

\* the references in the parameter list of an operation
ParameterRefs(doc, resource, operation) ==
  LET parameters == OperationAt(resource, operation) \o <<"parameters">>
  IN  {ValueAt(doc, parameters \o <<i, "$ref">>) : i \in KeysAt(doc, parameters)}

PaginationRefs ==
  {<<"#", "components", "parameters", "pageNumber">>,
   <<"#", "components", "parameters", "pageSize">>}

\* C19: the parameter list of an operation holds the references to the
\* shared pageNumber and pageSize parameters if and only if the operation is
\* get and the resource paginates; no other operation carries them, also
\* when the resource paginates.
C19_PaginationParameters ==
  Generated =>
    \A r \in Range(config.resources) : \A o \in Range(r.operations) :
      \A ref \in PaginationRefs :
        ref \in ParameterRefs(openapi, r, o) <=> (o = s_get /\ r.paginate)

\* a document is written for a resource that paginates, with get and getById
C19_Witness ==
  /\ pc = "done"
  /\ \E r \in Range(config.resources) :
       /\ r.paginate
       /\ {s_get, s_getById} \subseteq Range(r.operations)
       /\ PaginationRefs \subseteq ParameterRefs(openapiFile.written, r, s_get)

(***************************************************************************)
(* The filter parameters of get.                                           *)
(***************************************************************************)
\* the (attributeName, operator) pairs of filterParams
FilterPairs(resource) ==
  UNION {{<<e.name, op>> : op \in Range(e.operators)} : e \in Range(resource.filterParams)}

\* the indices of the query parameters among the returned parameters
QueryParameters ==
  {i \in KeysAt(openapi, <<"parameters">>) :
     ValueAt(openapi, <<"parameters", i, "in">>) = <<"query">>}

\* the name the specification gives the parameter of a pair
NameOfPair(pair) ==
  IF pair[2] = "eq" THEN "filter[" \o Show(pair[1]) \o "]"
  ELSE "filter[" \o Show(pair[1]) \o "][" \o pair[2] \o "]"

HasIdOperation(resource) ==
  \E o \in Range(resource.operations) : o \in {s_getById, s_patchById, s_deleteById}

\* the key of the id parameter of a resource in components.parameters
IdParameterKey(resource) == Show(resource.name) \o "Id"

\* buildEndpoints has passed the id-parameter step of the n-th resource
IdParameterPassed(n) ==
  \/ Returned("buildEndpoints")
  \/ /\ Position = StepIndex("buildEndpoints")
     /\ pc # "failed"
     /\ \/ n < at.resource
        \/ n = at.resource /\ at.part # "idParameter"

\* C21: the id parameter <resourceName>Id is among components.parameters if
\* and only if the resource has an id-scoped operation; it is written at one
\* place, the start of the resource's turn in buildEndpoints, and not before;
\* every id-scoped operation refers to it in its parameter list.
C21_IdParameter ==
  /\ (Returned("init") /\ pc # "failed") =>
       \A n \in DOMAIN config.resources :
         IdParameterKey(config.resources[n]) \in KeysAt(openapi, <<"components", "parameters">>)
           <=> (HasIdOperation(config.resources[n]) /\ IdParameterPassed(n))
  /\ Generated =>
       \A r \in Range(config.resources) : \A o \in Range(r.operations) :
         <<"#", "components", "parameters", IdParameterKey(r)>> \in ParameterRefs(openapi, r, o)
           <=> o \in {s_getById, s_patchById, s_deleteById}

\* a document is written for two resources, one with an id-scoped operation
\* and one without
C21_Witness ==
  /\ pc = "done"
  /\ \E r \in Range(config.resources) : HasIdOperation(r)
  /\ \E r \in Range(config.resources) : ~HasIdOperation(r) /\ r.operations # <<>>
  /\ KeysAt(openapiFile.written, <<"components", "parameters">>) # {}

\* the key of a request-body schema of a resource; kind is "Post" or "Patch"
BodyKey(resource, kind) == Show(upperFirst(toLower(resource.name))) \o kind \o "Body"

\* the operation whose body a kind of body is
OperationOfBody(kind) == IF kind = "Post" THEN s_post ELSE s_patchById

\* C22: an operation of a resource carries a requestBody if and only if it
\* is post or patchById; the body it refers to is a schema of the document;
\* and the schema <Prefix>PostBody is among the schemas exactly when the
\* resource declares post, <Prefix>PatchBody exactly when it declares
\* patchById.
C22_RequestBodies ==
  Generated =>
    \A r \in Range(config.resources) :
      /\ \A o \in Range(r.operations) :
           LET body == OperationAt(r, o) \o <<"requestBody">>
               ref == ValueAt(openapi, body \o <<"content", "application/json", "schema", "$ref">>)
           IN  /\ has(openapi, body) <=> o \in {s_post, s_patchById}
               /\ o = s_post => ref = <<"#", "components", "schemas", BodyKey(r, "Post")>>
               /\ o = s_patchById => ref = <<"#", "components", "schemas", BodyKey(r, "Patch")>>
               /\ has(openapi, body) => Resolves(openapi, ref)
      /\ \A kind \in {"Post", "Patch"} :
           BodyKey(r, kind) \in SchemaKeys(openapi)
             <=> OperationOfBody(kind) \in Range(r.operations)

(***************************************************************************)
(* Relationships of one resource that share type and cardinality.          *)
(***************************************************************************)
\* <OwnerPrefix><TargetPrefix>Relationship
LinkageKey(resource, relationship) ==
  Show(upperFirst(toLower(resource.name))) \o Show(upperFirst(toLower(relationship.type)))
    \o "Relationship"

\* <OwnerPrefix><TargetPrefix>Relationship[Set]Result
ResultKey(resource, relationship) ==
  LinkageKey(resource, relationship)
    \o (IF relationship.relationshipType = "toMany" THEN "Set" ELSE "") \o "Result"

\* the relationship buildEndpoints is about to process comes after one of the
\* same resource with the same type and cardinality
LaterOfSamePair ==
  /\ pc = "buildEndpoints"
  /\ at.part = "relationships"
  /\ \E k \in 1..(at.item - 1) :
       LET relationships == config.resources[at.resource].relationships
       IN  /\ relationships[k].type = relationships[at.item].type
           /\ relationships[k].relationshipType = relationships[at.item].relationshipType

\* processing such a relationship leaves the linkage schema and its Result
\* schema as they are
PairSchemasKept ==
  LaterOfSamePair =>
    LET resource == config.resources[at.resource]
        relationship == resource.relationships[at.item]
    IN  \A key \in {LinkageKey(resource, relationship), ResultKey(resource, relationship)} :
          TreeAt(openapi', <<"components", "schemas", key>>)
            = TreeAt(openapi, <<"components", "schemas", key>>)

\* C23: when a resource has two or more relationships with the same target
\* type and cardinality, the linkage schema and its Result schema are
\* defined once: processing the later relationships leaves both unchanged.
C23_PairDefinedOnce == [][PairSchemasKept]_vars

\* the result schema the 200 response of the relationship's get resolves to
ResultSchemaOf(doc, resource, relationship) ==
  LET response == ValueAt(doc, <<"paths", relationshipPath(resource, relationship),
                                 "get", "responses", "200", "$ref">>)
      schema == ValueAt(doc, Tail(response)
                               \o <<"content", "application/json", "schema", "$ref">>)
  IN  Tail(schema)

\* C24: at the end of generation, for every relationship r of every resource
\* R, the result schema the 200 response of r's endpoint resolves to has the
\* links.self example <baseUrl>/<R.plural>/1/relationships/<r> and the
\* links.related example <baseUrl>/<R.plural>/1/<r>.
C24_LinksNameRelationship ==
  Generated =>
    \A r \in Range(config.resources) : \A l \in Range(r.relationships) :
      LET links == ResultSchemaOf(openapi, r, l) \o <<"properties", "links", "properties">>
      IN  /\ ValueAt(openapi, links \o <<"self", "example">>)
               = baseUrl \o <<Show(r.plural), "1", "relationships", Show(l.name)>>
          /\ ValueAt(openapi, links \o <<"related", "example">>)
               = baseUrl \o <<Show(r.plural), "1", Show(l.name)>>

(***************************************************************************)
(* The relationships and links of the per-operation resource schemas.      *)
(***************************************************************************)
\* C25: of the per-operation resource schemas of a resource with
\* relationships, the get variant alone has the relationships property, the
\* post and patch variants have none; the links property is in the get
\* variant alone, and only when selfLinks is true.
C25_RelationshipsOfGetOnly ==
  (pc = "returned" /\ at.part \in {"get", "post", "patch"}
     /\ TheResource.relationships # <<>>) =>
    /\ has(openapi, <<"properties", "relationships">>) <=> at.part = "get"
    /\ has(openapi, <<"properties", "links">>) <=> (at.part = "get" /\ TheResource.selfLinks)

(***************************************************************************)
(* The order of the configuration's lists.                                 *)
(***************************************************************************)
\* the configuration with every operations list deduplicated, in the order
\* of OperationType
Deduplicated(cfg) ==
  [cfg EXCEPT !.resources =
     [n \in DOMAIN cfg.resources |->
        [cfg.resources[n] EXCEPT !.operations = Among(OperationType, Range(@))]]]

\* the path and method pairs the document has on the two paths of a resource
PairsOf(doc, resource) ==
  UNION {{<<p, method>> : method \in KeysAt(doc, <<"paths", p>>)} :
           p \in {collectionPath(resource), byIdPath(resource)}}

\* C26: the document main writes depends only on the set of each resource's
\* operations: with the operations permuted or a token repeated it equals
\* the document generated from the deduplicated list, and each token gives
\* exactly one path and method pair.
C26_OperationsAsSet ==
  pc = "done" =>
    /\ ~generate(Deduplicated(config)).threw
    /\ openapi = generate(Deduplicated(config)).value
    /\ \A r \in Range(config.resources) :
         /\ PairsOf(openapi, r)
              = {<<operationPath(r, o), operationMethod(o)>> : o \in Range(r.operations)}
         /\ Cardinality(PairsOf(openapi, r)) = Cardinality(Range(r.operations))

\* a document is written for the operations [post, get, post]
C26_Witness ==
  /\ pc = "done"
  /\ \E r \in Range(config.resources) : r.operations = <<s_post, s_get, s_post>>
  /\ openapiFile.written = generate(Deduplicated(config)).value

\* the orders of a sequence without repeated elements
Orders(seq) == {p \in [DOMAIN seq -> Range(seq)] : Range(p) = Range(seq)}

\* the configurations that differ from cfg in the iteration order of the
\* resource map and of the relationship maps
Reordered(cfg) ==
  {[cfg EXCEPT !.resources = [n \in DOMAIN rs |-> [rs[n] EXCEPT !.relationships = ls[n]]]] :
     rs \in Orders(cfg.resources),
     ls \in [DOMAIN cfg.resources ->
               UNION {Orders(r.relationships) : r \in Range(cfg.resources)}]}

\* the relationship maps of the reordered configuration are those of cfg
SameRelationships(cfg, other) ==
  \A r \in Range(cfg.resources) : \E x \in Range(other.resources) :
    x.name = r.name /\ Range(x.relationships) = Range(r.relationships)
                    /\ Len(x.relationships) = Len(r.relationships)

\* C27: whatever the iteration order of the resource map and of each
\* resource's relationship map, main writes the same document: its schemas,
\* parameters, responses, requestBodies and paths are equal entry by entry.
C27_OrderIrrelevant ==
  pc = "done" =>
    \A other \in Reordered(config) :
      SameRelationships(config, other) => generate(other) = Return(openapi)

(***************************************************************************)
(* The references of relationships.                                        *)
(***************************************************************************)
\* C28: every operation of a relationship's endpoint refers to the id
\* parameter of the owning resource, and at the end of generation that
\* parameter is among components.parameters for every resource with a
\* relationship, also when the resource has no id-scoped operation.
C28_IdParameterOfRelationships ==
  Generated =>
    \A r \in Range(config.resources) : \A l \in Range(r.relationships) :
      /\ \A method \in KeysAt(openapi, <<"paths", relationshipPath(r, l)>>) :
           ValueAt(openapi, <<"paths", relationshipPath(r, l), method,
                              "parameters", "0", "$ref">>)
             = <<"#", "components", "parameters", IdParameterKey(r)>>
      /\ IdParameterKey(r) \in KeysAt(openapi, <<"components", "parameters">>)

\* the schema keys that the relationships maps of the document's resource
\* schemas refer to
EmbeddedRefs(doc) ==
  {e.v[4] : e \in {f \in doc : /\ Len(f.p) = 8
                               /\ SubSeq(f.p, 1, 2) = <<"components", "schemas">>
                               /\ SubSeq(f.p, 4, 6) = <<"properties", "relationships",
                                                        "properties">>
                               /\ f.p[8] = "$ref"}}

\* the schema keys that getResourceSchema refers to for the declared
\* relationships of the configuration
DeclaredRefs ==
  UNION {{ValueAt(getRelationship(r.name, l), <<"$ref">>)[4] :
            l \in Range(r.relationships)} : r \in Range(config.resources)}

\* buildResources is running, or has returned and buildEndpoints has not begun
BeforeEndpoints == pc = "buildResources" \/ (pc = "buildEndpoints" /\ at = FirstAt)

\* C29: the references that buildResources writes into the relationships
\* maps of the resource schemas are those of the declared relationships;
\* none of them names a schema of the document while buildResources runs
\* and when it returns, and every one of them names a schema of the document
\* once buildEndpoints has returned.
C29_RelationshipRefsDefinedLater ==
  /\ Returned("init") /\ pc # "failed" => EmbeddedRefs(openapi) \subseteq DeclaredRefs
  /\ BeforeEndpoints => DeclaredRefs \cap SchemaKeys(openapi) = {}
  /\ Generated => DeclaredRefs \subseteq SchemaKeys(openapi)
  /\ Generated =>
       \A r \in Range(config.resources) :
         (\A other \in Range(config.resources) :
            getResourceSchemaPrefix(other.name) = getResourceSchemaPrefix(r.name)
              => other = r)
         => \A l \in Range(r.relationships) :
              ValueAt(getRelationship(r.name, l), <<"$ref">>)[4] \in EmbeddedRefs(openapi)

\* a document is written whose resource schema refers to the result schema
\* of a to-many relationship, defined by then
C29_Witness ==
  /\ pc = "done"
  /\ \E r \in Range(config.resources) : \E l \in Range(r.relationships) :
       l.relationshipType = "toMany"
  /\ EmbeddedRefs(openapiFile.written) # {}
  /\ EmbeddedRefs(openapiFile.written) \subseteq SchemaKeys(openapiFile.written)

(***************************************************************************)
(* The operationIds of all operations.                                     *)
(***************************************************************************)
\* the (path, method) pairs of the document's operation objects
OperationPairs(doc) ==
  UNION {{<<path, method>> : method \in KeysAt(doc, <<"paths", path>>)} :
           path \in KeysAt(doc, <<"paths">>)}

\* C30: every operation object under paths of the generated document has an
\* operationId, those of the relationship endpoints included, and no two
\* operation objects have the same operationId.
C30_EveryOperationHasId ==
  Generated =>
    /\ \A pair \in OperationPairs(openapi) :
         has(openapi, <<"paths", pair[1], pair[2], "operationId">>)
    /\ \A pair \in OperationPairs(openapi) : \A other \in OperationPairs(openapi) :
         ValueAt(openapi, <<"paths", pair[1], pair[2], "operationId">>)
           = ValueAt(openapi, <<"paths", other[1], other[2], "operationId">>)
         => pair = other

====
